---- MODULE Spec2Model ----
(***************************************************************************)
(* Model of meshtastic_exporter.py: the packet callback onReceive, its     *)
(* payload projectors, the routing/signal derivation, the node registry    *)
(* `nodes` and the seeding loop of server_loop, writing into the           *)
(* prometheus metrics declared at module level, and the commands tcp, ble  *)
(* and serial that construct the interface and call server_loop.           *)
(*                                                                         *)
(* A python dict is a function whose DOMAIN is its key set; an optional    *)
(* key or field is a sequence of length at most one (<<>> absent, <<v>>    *)
(* present).  A labelled metric is a function from the label tuples that   *)
(* exist to their values: .labels(...) creates the series, .inc()/.set()   *)
(* give it its value.  A python exception aborts the rest of the call and  *)
(* keeps the writes made before it.                                        *)
(***************************************************************************)
EXTENDS Integers, Sequences, FiniteSets, TLC

(***************************************************************************)
(* Bounds of the explored inputs.                                          *)
(***************************************************************************)
MaxNode == 2
MaxTime == 2
MaxHop == 2
MaxPackets == 2
MaxDevices == 2

\* meshtastic.BROADCAST_NUM is 0xFFFFFFFF; TLC integers are 32-bit signed, so
\* the reserved value is represented by the largest integer TLC has.  Only
\* its being different from every node number matters.
BROADCAST_NUM == 2147483647

\* float('0'), the value seeding publishes for an entry without lastHeard
NEVER == 0

None == <<>>
Some(v) == <<v>>
Opt(S) == {None} \cup {Some(v) : v \in S}

Nodes == 1..MaxNode
Times == 1..MaxTime
Hops == 0..MaxHop

PortNums == {"TELEMETRY_APP", "POSITION_APP", "NODEINFO_APP", "TEXT_MESSAGE_APP"}

\* packet['decoded']['user'] / entry['user']: the fields set_last_heard reads.
\* id, shortName, macaddr and hwModel are copied into labels exactly like
\* longName and are folded into it; isLicensed is the one optional key.
Users ==
    { [longName |-> "Alice", isLicensed |-> None],
      [longName |-> "Alicia", isLicensed |-> Some(TRUE)] }

VARIABLES
    nodes,              \* the module-level dict `nodes`
    INCOMING_MESSAGES,  \* Counter, labels (type)
    NODE_INFO,          \* Gauge, labels (num, long_name, is_licensed)
    NODE_LATITUDE,      \* Gauge, labels (num)
    NODE_LONGITUDE,     \* Gauge, labels (num)
    NODE_ALTITUDE,      \* Gauge, labels (num)
    NODE_SNR,           \* Gauge, labels (num)
    NODE_RSSI,          \* Gauge, labels (num)
    NODE_HOP_LIMIT,     \* Gauge, labels (num)
    NODE_HOP_COUNT,     \* Gauge, labels (num)
    DEVICE_METRICS,     \* Gauge, labels (num, metric, type)
    MESSAGES,           \* Counter, labels (src, dest, type)
    cached_node_info,   \* items of interface.nodesByNum, in iteration order
    seeded,             \* how many items server_loop's for loop has consumed
    pc,                 \* the main thread: "connecting" (in the command, before or
                        \* between server_loop calls), "seeding", "serving" (the
                        \* sleep loop), "exited"
    command,            \* the typer command that was invoked: "tcp", "ble", "serial"
    address,            \* ble's address argument (None for the other commands)
    potential_devices,  \* what BLEClient().discover() returned
    device,             \* how many of them ble's for loop has consumed
    subscribed,         \* pub.subscribe(onReceive, ...) of line 106 has run
    exit_status,        \* argument of sys.exit (None while the process runs)
    packet,             \* argument of the latest onReceive call (None before the first)
    now,                \* what time.time() returned in the latest call (None if not read)
    raised,             \* exception that ended the latest onReceive call ("" if it returned)
    delivered           \* how many times the transport has called onReceive, per portnum

metrics ==
    << INCOMING_MESSAGES, NODE_INFO, NODE_LATITUDE, NODE_LONGITUDE, NODE_ALTITUDE,
       NODE_SNR, NODE_RSSI, NODE_HOP_LIMIT, NODE_HOP_COUNT, DEVICE_METRICS, MESSAGES >>

\* the state of the command around server_loop
process == << command, address, potential_devices, device, subscribed, exit_status >>

vars ==
    << nodes, metrics, cached_node_info, seeded, pc, process, packet, now, raised, delivered >>

(***************************************************************************)
(* prometheus_client primitives                                            *)
(***************************************************************************)
\* metric.labels(k).set(v)
GaugeSet(g, k, v) == [x \in DOMAIN g \cup {k} |-> IF x = k THEN v ELSE g[x]]

\* metric.labels(k).inc()
CounterInc(c, k) ==
    [x \in DOMAIN c \cup {k} |->
        IF x = k THEN (IF k \in DOMAIN c THEN c[k] + 1 ELSE 1) ELSE c[x]]

\* value of a series, 0 when it does not exist
Value(m, k) == IF k \in DOMAIN m THEN m[k] ELSE 0

(***************************************************************************)
(* The program state as one record, so that a function of the program is   *)
(* an operator from state to state; exc names the exception in flight.     *)
(***************************************************************************)
State ==
    [ nodes |-> nodes,
      INCOMING_MESSAGES |-> INCOMING_MESSAGES,
      NODE_INFO |-> NODE_INFO,
      NODE_LATITUDE |-> NODE_LATITUDE,
      NODE_LONGITUDE |-> NODE_LONGITUDE,
      NODE_ALTITUDE |-> NODE_ALTITUDE,
      NODE_SNR |-> NODE_SNR,
      NODE_RSSI |-> NODE_RSSI,
      NODE_HOP_LIMIT |-> NODE_HOP_LIMIT,
      NODE_HOP_COUNT |-> NODE_HOP_COUNT,
      DEVICE_METRICS |-> DEVICE_METRICS,
      MESSAGES |-> MESSAGES,
      exc |-> "" ]

Raise(st, e) == [st EXCEPT !.exc = e]

\* user['isLicensed'] if 'isLicensed' in user else "False", as a label string
is_licensed(user) ==
    IF user.isLicensed = None THEN "False"
    ELSE IF user.isLicensed[1] THEN "True" ELSE "False"

\* set_last_heard that gives a series its value only when it creates it
set_last_heard_KeepFirst(st, num, user, last_heard) ==
    LET k == <<num, user.longName, is_licensed(user)>>
    IN  IF k \in DOMAIN st.NODE_INFO THEN st
        ELSE [st EXCEPT !.NODE_INFO = GaugeSet(@, k, last_heard)]

set_last_heard(st, num, user, last_heard) ==
    [st EXCEPT !.NODE_INFO =
        GaugeSet(@, <<num, user.longName, is_licensed(user)>>, last_heard)]

\* parse_signal_and_hops without the test of line 73: SNR and RSSI are taken
\* from relayed packets too
parse_signal_and_hops_AnyHops(st, raw_data, sending_node) ==
    LET s1 == IF raw_data.hop_start /= 0
              THEN [st EXCEPT !.NODE_HOP_LIMIT =
                        GaugeSet(@, sending_node, raw_data.hop_start)]
              ELSE st
        hops == raw_data.hop_start - raw_data.hop_limit
        s2 == [s1 EXCEPT !.NODE_HOP_COUNT = GaugeSet(@, sending_node, hops)]
        s3 == IF raw_data.rx_snr /= 0
              THEN [s2 EXCEPT !.NODE_SNR = GaugeSet(@, sending_node, raw_data.rx_snr)]
              ELSE s2
        s4 == IF raw_data.rx_rssi /= 0
              THEN [s3 EXCEPT !.NODE_RSSI = GaugeSet(@, sending_node, raw_data.rx_rssi)]
              ELSE s3
    IN  IF raw_data.hop_limit /= 0 /\ raw_data.hop_start /= 0
        THEN s4
        ELSE s1

parse_signal_and_hops(st, raw_data, sending_node) ==
    LET s1 == IF raw_data.hop_start /= 0
              THEN [st EXCEPT !.NODE_HOP_LIMIT =
                        GaugeSet(@, sending_node, raw_data.hop_start)]
              ELSE st
        hops == raw_data.hop_start - raw_data.hop_limit
        s2 == [s1 EXCEPT !.NODE_HOP_COUNT = GaugeSet(@, sending_node, hops)]
        s3 == IF raw_data.rx_snr /= 0
              THEN [s2 EXCEPT !.NODE_SNR = GaugeSet(@, sending_node, raw_data.rx_snr)]
              ELSE s2
        s4 == IF raw_data.rx_rssi /= 0
              THEN [s3 EXCEPT !.NODE_RSSI = GaugeSet(@, sending_node, raw_data.rx_rssi)]
              ELSE s3
    IN  IF raw_data.hop_limit /= 0 /\ raw_data.hop_start /= 0
        THEN (IF hops = 0 THEN s4 ELSE s2)
        ELSE s1

parse_position_packet(st, p, sending_node) ==
    IF p.position = None THEN st
    ELSE LET position == p.position[1]
             s1 == IF "latitude" \in DOMAIN position
                   THEN [st EXCEPT !.NODE_LATITUDE =
                             GaugeSet(@, sending_node, position["latitude"])]
                   ELSE st
             s2 == IF "longitude" \in DOMAIN position
                   THEN [s1 EXCEPT !.NODE_LONGITUDE =
                             GaugeSet(@, sending_node, position["longitude"])]
                   ELSE s1
         IN  IF "altitude" \in DOMAIN position
             THEN [s2 EXCEPT !.NODE_ALTITUDE =
                       GaugeSet(@, sending_node, position["altitude"])]
             ELSE s2

\* SetGroup that first drops the series of this node and type which the
\* group does not name
SetGroup_DropStale(g, sending_node, group, type) ==
    LET keys == {<<sending_node, key, type>> : key \in DOMAIN group}
        kept == {x \in DOMAIN g : x[1] /= sending_node \/ x[3] /= type}
    IN  [x \in kept \cup keys |-> IF x \in keys THEN group[x[2]] ELSE g[x]]

\* for key, value in group.items(): DEVICE_METRICS.labels(num, key, type).set(value)
SetGroup(g, sending_node, group, type) ==
    LET keys == {<<sending_node, key, type>> : key \in DOMAIN group}
    IN  [x \in DOMAIN g \cup keys |-> IF x \in keys THEN group[x[2]] ELSE g[x]]

parse_telemetry_packet(st, p, sending_node) ==
    IF p.telemetry = None THEN Raise(st, "KeyError")
    ELSE LET telemetry == p.telemetry[1]
             s1 == IF "deviceMetrics" \in DOMAIN telemetry
                   THEN [st EXCEPT !.DEVICE_METRICS =
                             SetGroup(@, sending_node, telemetry["deviceMetrics"], "device")]
                   ELSE st
         IN  IF "environmentMetrics" \in DOMAIN telemetry
             THEN [s1 EXCEPT !.DEVICE_METRICS =
                       SetGroup(@, sending_node, telemetry["environmentMetrics"],
                                "environment")]
             ELSE s1

\* parse_nodeinfo_packet that publishes a registered node under the identity
\* the registry holds instead of the one in the packet
parse_nodeinfo_packet_RegisteredUser(st, p, sending_node, t) ==
    LET rx_time == IF p.rx_time /= None THEN p.rx_time[1] ELSE t
    IN  IF p.user = None THEN Raise(st, "KeyError")
        ELSE IF sending_node \notin DOMAIN st.nodes
             THEN [set_last_heard(st, sending_node, p.user[1], rx_time) EXCEPT !.nodes =
                      [n \in DOMAIN @ \cup {sending_node} |->
                          IF n = sending_node
                          THEN [user |-> p.user, lastHeard |-> Some(rx_time)]
                          ELSE @[n]]]
             ELSE set_last_heard(st, sending_node, st.nodes[sending_node].user[1], rx_time)

\* parse_nodeinfo_packet that stores the identity of every NODEINFO packet,
\* replacing the entry of a registered node
parse_nodeinfo_packet_Overwrite(st, p, sending_node, t) ==
    LET rx_time == IF p.rx_time /= None THEN p.rx_time[1] ELSE t
    IN  IF p.user = None THEN Raise(st, "KeyError")
        ELSE [set_last_heard(st, sending_node, p.user[1], rx_time) EXCEPT !.nodes =
                 [n \in DOMAIN @ \cup {sending_node} |->
                     IF n = sending_node
                     THEN [user |-> p.user, lastHeard |-> Some(rx_time)]
                     ELSE @[n]]]

\* t is what time.time() returns if it is called
parse_nodeinfo_packet(st, p, sending_node, t) ==
    LET rx_time == IF p.rx_time /= None THEN p.rx_time[1] ELSE t
    IN  IF p.user = None THEN Raise(st, "KeyError")
        ELSE LET s1 == set_last_heard(st, sending_node, p.user[1], rx_time)
             IN  IF sending_node \notin DOMAIN s1.nodes
                 THEN [s1 EXCEPT !.nodes =
                          [n \in DOMAIN @ \cup {sending_node} |->
                              IF n = sending_node
                              THEN [user |-> p.user, lastHeard |-> Some(rx_time)]
                              ELSE @[n]]]
                 ELSE s1

\* dest=packet["to"] if packet["to"] != BROADCAST_NUM else "all"; prometheus
\* turns a label value into its str()
dest_label(p) == IF p.to /= BROADCAST_NUM THEN ToString(p.to) ELSE "all"

\* onReceive with line 36 moved below the rx_time lookup of lines 38-39: a
\* call that raises there is not counted
onReceiveBody_CountAfterLookup(st, p, t) ==
    LET message_type == p.portnum
        sending_node == p.from
        s2 == IF p.decoded_rx_time /= None
              THEN IF sending_node \notin DOMAIN st.nodes THEN Raise(st, "KeyError")
                   ELSE IF st.nodes[sending_node].user = None THEN Raise(st, "KeyError")
                   ELSE set_last_heard(st, sending_node, st.nodes[sending_node].user[1],
                                       p.decoded_rx_time[1])
              ELSE st
        s1 == [s2 EXCEPT !.INCOMING_MESSAGES = CounterInc(@, message_type)]
        s3 == [s1 EXCEPT !.MESSAGES =
                  CounterInc(@, <<sending_node, dest_label(p), message_type>>)]
        s4 == parse_signal_and_hops(s3, p, sending_node)
        s5 == IF message_type = "TELEMETRY_APP"
              THEN parse_telemetry_packet(s4, p, sending_node)
              ELSE IF message_type = "POSITION_APP"
              THEN parse_position_packet(s4, p, sending_node)
              ELSE IF message_type = "NODEINFO_APP"
              THEN parse_nodeinfo_packet(s4, p, sending_node, t)
              ELSE s4
    IN  IF s2.exc /= "" THEN s2 ELSE s5

\* onReceive whose default arm registers the sender of a packet of any
\* other port type, without identity
onReceiveBody_RegisterSender(st, p, t) ==
    LET message_type == p.portnum
        sending_node == p.from
        s1 == [st EXCEPT !.INCOMING_MESSAGES = CounterInc(@, message_type)]
        s2 == IF p.decoded_rx_time /= None
              THEN IF sending_node \notin DOMAIN s1.nodes THEN Raise(s1, "KeyError")
                   ELSE IF s1.nodes[sending_node].user = None THEN Raise(s1, "KeyError")
                   ELSE set_last_heard(s1, sending_node, s1.nodes[sending_node].user[1],
                                       p.decoded_rx_time[1])
              ELSE s1
        s3 == [s2 EXCEPT !.MESSAGES =
                  CounterInc(@, <<sending_node, dest_label(p), message_type>>)]
        s4 == parse_signal_and_hops(s3, p, sending_node)
        s5 == IF message_type = "TELEMETRY_APP"
              THEN parse_telemetry_packet(s4, p, sending_node)
              ELSE IF message_type = "POSITION_APP"
              THEN parse_position_packet(s4, p, sending_node)
              ELSE IF message_type = "NODEINFO_APP"
              THEN parse_nodeinfo_packet(s4, p, sending_node, t)
              ELSE IF sending_node \in DOMAIN s4.nodes THEN s4
              ELSE [s4 EXCEPT !.nodes =
                       [n \in DOMAIN @ \cup {sending_node} |->
                           IF n = sending_node
                           THEN [user |-> None, lastHeard |-> None]
                           ELSE @[n]]]
    IN  IF s2.exc /= "" THEN s2 ELSE s5

\* the body of onReceive, from the state st
onReceiveBody(st, p, t) ==
    LET message_type == p.portnum
        sending_node == p.from
        s1 == [st EXCEPT !.INCOMING_MESSAGES = CounterInc(@, message_type)]
        s2 == IF p.decoded_rx_time /= None
              THEN IF sending_node \notin DOMAIN s1.nodes THEN Raise(s1, "KeyError")
                   ELSE IF s1.nodes[sending_node].user = None THEN Raise(s1, "KeyError")
                   ELSE set_last_heard(s1, sending_node, s1.nodes[sending_node].user[1],
                                       p.decoded_rx_time[1])
              ELSE s1
        s3 == [s2 EXCEPT !.MESSAGES =
                  CounterInc(@, <<sending_node, dest_label(p), message_type>>)]
        s4 == parse_signal_and_hops(s3, p, sending_node)
        s5 == IF message_type = "TELEMETRY_APP"
              THEN parse_telemetry_packet(s4, p, sending_node)
              ELSE IF message_type = "POSITION_APP"
              THEN parse_position_packet(s4, p, sending_node)
              ELSE IF message_type = "NODEINFO_APP"
              THEN parse_nodeinfo_packet(s4, p, sending_node, t)
              ELSE s4
    IN  IF s2.exc /= "" THEN s2 ELSE s5

\* does this call read the wall clock (line 55)
ReadsClock(st, p) ==
    /\ p.portnum = "NODEINFO_APP"
    /\ p.rx_time = None
    /\ ~ (p.decoded_rx_time /= None
          /\ (p.from \notin DOMAIN st.nodes \/ st.nodes[p.from].user = None))

Install(s) ==
    /\ nodes' = s.nodes
    /\ INCOMING_MESSAGES' = s.INCOMING_MESSAGES
    /\ NODE_INFO' = s.NODE_INFO
    /\ NODE_LATITUDE' = s.NODE_LATITUDE
    /\ NODE_LONGITUDE' = s.NODE_LONGITUDE
    /\ NODE_ALTITUDE' = s.NODE_ALTITUDE
    /\ NODE_SNR' = s.NODE_SNR
    /\ NODE_RSSI' = s.NODE_RSSI
    /\ NODE_HOP_LIMIT' = s.NODE_HOP_LIMIT
    /\ NODE_HOP_COUNT' = s.NODE_HOP_COUNT
    /\ DEVICE_METRICS' = s.DEVICE_METRICS
    /\ MESSAGES' = s.MESSAGES

\* sum of the values of a counter's series
Total(c) ==
    LET RECURSIVE Sum(_)
        Sum(S) == IF S = {} THEN 0
                  ELSE LET k == CHOOSE x \in S : TRUE
                       IN  c[k] + Sum(S \ {k})
    IN  Sum(DOMAIN c)

\* The transport's receiver thread calls onReceive(p): it is subscribed at
\* line 106, before the seeding loop, and stays so until the process exits.
onReceive(p) ==
    /\ subscribed
    /\ pc /= "exited"
    /\ Total(delivered) < MaxPackets
    /\ \E t \in (IF ReadsClock(State, p) THEN Times ELSE {0}) :
          LET s == onReceiveBody(State, p, t)
          IN  /\ Install(s)
              /\ raised' = s.exc
              /\ now' = IF ReadsClock(State, p) THEN Some(t) ELSE None
    /\ packet' = Some(p)
    /\ delivered' = CounterInc(delivered, p.portnum)
    /\ UNCHANGED << cached_node_info, seeded, pc, process >>

(***************************************************************************)
(* server_loop: one iteration of the for loop over the node snapshot       *)
(***************************************************************************)
\* ble with address "any": the for loop of lines 145-150
AnyDevice == command = "ble" /\ address = Some("any")

\* sys.exit(1)
sys_exit ==
    /\ pc' = "exited"
    /\ exit_status' = Some(1)

\* An exception leaves server_loop and reaches the except clause of the
\* command: lines 148-150 go on to the next device, the others exit.
SeedEntry ==
    /\ pc = "seeding"
    /\ seeded < Len(cached_node_info)
    /\ LET id == cached_node_info[seeded + 1][1]
           entry == cached_node_info[seeded + 1][2]
           s1 == [State EXCEPT !.nodes =
                     [n \in DOMAIN @ \cup {id} |-> IF n = id THEN entry ELSE @[n]]]
           s2 == IF entry.user = None THEN Raise(s1, "KeyError")
                 ELSE set_last_heard(s1, id, entry.user[1],
                          IF entry.lastHeard /= None THEN entry.lastHeard[1] ELSE NEVER)
       IN  /\ Install(s2)
           /\ IF s2.exc = "" THEN UNCHANGED << pc, exit_status >>
              ELSE IF AnyDevice THEN pc' = "connecting" /\ UNCHANGED exit_status
              ELSE sys_exit
    /\ seeded' = seeded + 1
    /\ UNCHANGED << cached_node_info, packet, now, raised, delivered >>
    /\ UNCHANGED << command, address, potential_devices, device, subscribed >>

\* the loop is exhausted: while True: time.sleep(100)
SeedDone ==
    /\ pc = "seeding"
    /\ seeded = Len(cached_node_info)
    /\ pc' = "serving"
    /\ UNCHANGED << nodes, metrics, cached_node_info, seeded, packet, now, raised, delivered >>
    /\ UNCHANGED process

(***************************************************************************)
(* Inputs                                                                  *)
(***************************************************************************)
Pkt(from, to, portnum, drx, rx, hs, hl, snr, rssi, tel, pos, user) ==
    [ from |-> from, to |-> to, portnum |-> portnum,
      decoded_rx_time |-> drx, rx_time |-> rx,
      hop_start |-> hs, hop_limit |-> hl, rx_snr |-> snr, rx_rssi |-> rssi,
      telemetry |-> tel, position |-> pos, user |-> user ]

\* node snapshots: sequences of (id, entry) with distinct ids
Snapshots(E) ==
    {<<>>} \cup {<<<<i, e>>>> : i \in Nodes, e \in E}
           \cup {s \in {<<<<i, e>>, <<j, f>>>> : i \in Nodes, j \in Nodes, e \in E, f \in E} :
                     s[1][1] /= s[2][1]}

\* the module as imported: no node, no series, no call yet
Imported ==
    /\ nodes = <<>>
    /\ INCOMING_MESSAGES = <<>>
    /\ NODE_INFO = <<>>
    /\ NODE_LATITUDE = <<>>
    /\ NODE_LONGITUDE = <<>>
    /\ NODE_ALTITUDE = <<>>
    /\ NODE_SNR = <<>>
    /\ NODE_RSSI = <<>>
    /\ NODE_HOP_LIMIT = <<>>
    /\ NODE_HOP_COUNT = <<>>
    /\ DEVICE_METRICS = <<>>
    /\ MESSAGES = <<>>
    /\ packet = None
    /\ now = None
    /\ raised = ""
    /\ delivered = <<>>

\* the tcp command has connected and server_loop is at line 110, about to
\* iterate over a snapshot of S
InitWith(S) ==
    /\ Imported
    /\ cached_node_info \in S
    /\ seeded = 0
    /\ pc = "seeding"
    /\ command = "tcp"
    /\ address = None
    /\ potential_devices = <<>>
    /\ device = 0
    /\ subscribed = TRUE
    /\ exit_status = None

\* a registry in which node 1 is known and every other node is not
KnownOne == { <<<<1, [user |-> Some(CHOOSE u \in Users : u.longName = "Alice"),
                     lastHeard |-> Some(1)]>>>> }

(***************************************************************************)
(* Dispatcher: every port type, with and without its payload, to a node    *)
(* and to the broadcast address, with and without decoded rx_time.  The    *)
(* packets carry the packet-level rx_time, so no call reads the clock, and *)
(* are received directly with an SNR and an RSSI reading.                  *)
(***************************************************************************)
Payloads ==
    { <<"TEXT_MESSAGE_APP", None, None, None>>,
      <<"TELEMETRY_APP", None, None, None>>,
      <<"TELEMETRY_APP", Some([deviceMetrics |-> [batteryLevel |-> 80]]), None, None>>,
      <<"POSITION_APP", None, Some([latitude |-> 52]), None>>,
      <<"NODEINFO_APP", None, None, None>>,
      <<"NODEINFO_APP", None, None, Some(CHOOSE u \in Users : u.longName = "Alicia")>> }

DispatchPackets ==
    { Pkt(from, to, pl[1], drx, Some(MaxTime), MaxHop, MaxHop, 6, -80, pl[2], pl[3], pl[4]) :
        from \in Nodes, to \in {1, BROADCAST_NUM}, drx \in {None, Some(MaxTime)},
        pl \in Payloads }

InitDispatch == InitWith(KnownOne)

Receive(P) == \E p \in P : onReceive(p)

NextDispatch == SeedEntry \/ SeedDone \/ Receive(DispatchPackets)

SpecDispatch == InitDispatch /\ [][NextDispatch]_vars

\* the payload the port type announces is there
HasPayload(p) ==
    /\ p.portnum = "TELEMETRY_APP" => p.telemetry /= None
    /\ p.portnum = "NODEINFO_APP" => p.user /= None

\* an onReceive call took this step
Called == delivered' /= delivered

\* C1: onReceive never raises: whatever optional fields (receive time, hop
\* start, hop limit, SNR, RSSI) a packet with its payload lacks, and whether
\* or not its source node is registered, the call returns normally.
C1_onReceiveNeverRaises ==
    (packet /= None /\ HasPayload(packet[1])) => raised = ""

\* C2: for every port type, incoming_messages{type} equals the number of
\* packets of that type delivered to onReceive, also when the call raised
\* in a later step.
C2_IncomingCountsEveryPacket ==
    \A type \in PortNums : Value(INCOMING_MESSAGES, type) = Value(delivered, type)

\* two packets of different types delivered, the latest call ended in an error
C2_Witness ==
    /\ raised /= ""
    /\ Total(delivered) = 2
    /\ Value(delivered, "TELEMETRY_APP") = 1
    /\ Value(INCOMING_MESSAGES, "NODEINFO_APP") = 1

\* C3: every onReceive call increments message_count{src, dest, type} with
\* dest "all" for the broadcast address and the destination node otherwise,
\* and no series has the broadcast value itself as dest.
C3_MessageCountEveryPacket ==
    [][Called =>
        LET p == packet'[1]
            dest == IF p.to = BROADCAST_NUM THEN "all" ELSE ToString(p.to)
            key == <<p.from, dest, p.portnum>>
        IN  /\ key \in DOMAIN MESSAGES'
            /\ MESSAGES'[key] = Value(MESSAGES, key) + 1
            /\ \A k \in DOMAIN MESSAGES' : k[2] /= ToString(BROADCAST_NUM)]_vars

\* the payload-derived metrics: positions and device metrics
payload_metrics == << NODE_LATITUDE, NODE_LONGITUDE, NODE_ALTITUDE, DEVICE_METRICS >>

\* C11: a packet with a decoded rx_time from a node that is not registered
\* is a no-op for the registry step and still goes through the remaining
\* steps: the call returns, message_count is incremented, the hop limit is
\* derived, and unless the packet is a NODEINFO packet (whose projector
\* registers the node) nodes and node_info are unchanged.
C11_UnknownNodeIsNoOp ==
    [][(/\ Called
        /\ packet'[1].decoded_rx_time /= None
        /\ packet'[1].from \notin DOMAIN nodes) =>
          LET p == packet'[1]
              key == <<p.from, dest_label(p), p.portnum>>
          IN  /\ raised' \in {"", IF HasPayload(p) THEN "" ELSE "KeyError"}
              /\ key \in DOMAIN MESSAGES'
              /\ MESSAGES'[key] = Value(MESSAGES, key) + 1
              /\ p.hop_start /= 0 =>
                    /\ p.from \in DOMAIN NODE_HOP_LIMIT'
                    /\ NODE_HOP_LIMIT'[p.from] = p.hop_start
              /\ p.portnum /= "NODEINFO_APP" =>
                    nodes' = nodes /\ NODE_INFO' = NODE_INFO
              /\ (p.portnum = "POSITION_APP" /\ p.position /= None
                     /\ "latitude" \in DOMAIN p.position[1]) =>
                    /\ p.from \in DOMAIN NODE_LATITUDE'
                    /\ NODE_LATITUDE'[p.from] = p.position[1]["latitude"]]_vars

\* the gauge g2 is g with at most the series k created or changed
OnlyAt(g2, g, k) ==
    /\ DOMAIN g2 \subseteq DOMAIN g \cup {k}
    /\ \A x \in DOMAIN g : x \in DOMAIN g2 /\ (x /= k => g2[x] = g[x])

\* C17: onReceive of a packet of another port type than TELEMETRY, POSITION
\* and NODEINFO leaves nodes, the position gauges and device_metric as they
\* were; it changes at most incoming_messages{type}, message_count{src,
\* dest, type}, the hop and signal gauges of its source node and, if it has
\* a decoded rx_time and its source node is registered, the node_info
\* series of that node's registered identity.
C17_OtherTypesOnlyAccounted ==
    [][(Called /\ packet'[1].portnum
                     \notin {"TELEMETRY_APP", "POSITION_APP", "NODEINFO_APP"}) =>
          LET p == packet'[1]
          IN  /\ nodes' = nodes
              /\ payload_metrics' = payload_metrics
              /\ OnlyAt(INCOMING_MESSAGES', INCOMING_MESSAGES, p.portnum)
              /\ OnlyAt(MESSAGES', MESSAGES, <<p.from, dest_label(p), p.portnum>>)
              /\ OnlyAt(NODE_HOP_LIMIT', NODE_HOP_LIMIT, p.from)
              /\ OnlyAt(NODE_HOP_COUNT', NODE_HOP_COUNT, p.from)
              /\ OnlyAt(NODE_SNR', NODE_SNR, p.from)
              /\ OnlyAt(NODE_RSSI', NODE_RSSI, p.from)
              /\ IF /\ p.decoded_rx_time /= None
                    /\ p.from \in DOMAIN nodes
                    /\ nodes[p.from].user /= None
                 THEN OnlyAt(NODE_INFO', NODE_INFO,
                             <<p.from, nodes[p.from].user[1].longName,
                               is_licensed(nodes[p.from].user[1])>>)
                 ELSE NODE_INFO' = NODE_INFO]_vars

\* after a position packet of node 2, a text packet with decoded rx_time
\* of the registered node 1 was handled to the end: node_info of node 1
\* has its time, node 2 has its latitude and is not registered
C17_Witness ==
    /\ packet /= None
    /\ raised = ""
    /\ packet[1].portnum = "TEXT_MESSAGE_APP"
    /\ packet[1].from = 1
    /\ packet[1].decoded_rx_time = Some(MaxTime)
    /\ 1 \in DOMAIN nodes
    /\ <<1, "Alice", "False">> \in DOMAIN NODE_INFO
    /\ NODE_INFO[<<1, "Alice", "False">>] = MaxTime
    /\ 1 \in DOMAIN NODE_SNR
    /\ 2 \in DOMAIN NODE_LATITUDE
    /\ 2 \notin DOMAIN nodes
    /\ Value(INCOMING_MESSAGES, "TEXT_MESSAGE_APP") = 1

(***************************************************************************)
(* Signal and routing derivation: every hop_start and hop_limit, with and  *)
(* without SNR and RSSI, from the registered node and from an unknown one, *)
(* with and without decoded rx_time.                                       *)
(***************************************************************************)
SignalPackets ==
    { Pkt(from, BROADCAST_NUM, "TEXT_MESSAGE_APP", drx, None, hs, hl, snr, rssi,
          None, None, None) :
        from \in Nodes, drx \in {None, Some(MaxTime)}, hs \in Hops, hl \in Hops,
        snr \in {0, 6}, rssi \in {0, -80} }

InitSignals == InitWith(KnownOne)

NextSignals == SeedEntry \/ SeedDone \/ Receive(SignalPackets)

SpecSignals == InitSignals /\ [][NextSignals]_vars

\* hop_start and hop_limit present, non-zero and equal: received directly
Direct(p) == p.hop_start /= 0 /\ p.hop_limit /= 0 /\ p.hop_start - p.hop_limit = 0

\* C4: node_snr and node_rssi change only in an onReceive call whose packet
\* has hop_start - hop_limit = 0 with both present: a relayed packet, or one
\* whose hop count cannot be computed, changes neither gauge of any node.
C4_SignalOnlyFromDirect ==
    [][(NODE_SNR' /= NODE_SNR \/ NODE_RSSI' /= NODE_RSSI)
          => (Called /\ Direct(packet'[1]))]_vars

\* a relayed packet carrying SNR and RSSI was handled to the end and its
\* node has no node_snr and no node_rssi
C4_Witness ==
    /\ packet /= None
    /\ raised = ""
    /\ packet[1].hop_start = 2 /\ packet[1].hop_limit = 1
    /\ packet[1].rx_snr /= 0 /\ packet[1].rx_rssi /= 0
    /\ packet[1].from \in DOMAIN NODE_HOP_COUNT
    /\ packet[1].from \notin DOMAIN NODE_SNR
    /\ packet[1].from \notin DOMAIN NODE_RSSI

\* C5: after onReceive of a directly received packet, node_snr{num=from} is
\* the packet's SNR if that is non-zero and node_rssi{num=from} its RSSI if
\* that is non-zero, each independently; a zero reading leaves its gauge.
C5_DirectUpdatesSignal ==
    [][(Called /\ Direct(packet'[1])) =>
        LET p == packet'[1]
        IN  /\ IF p.rx_snr /= 0
               THEN p.from \in DOMAIN NODE_SNR' /\ NODE_SNR'[p.from] = p.rx_snr
               ELSE NODE_SNR' = NODE_SNR
            /\ IF p.rx_rssi /= 0
               THEN p.from \in DOMAIN NODE_RSSI' /\ NODE_RSSI'[p.from] = p.rx_rssi
               ELSE NODE_RSSI' = NODE_RSSI]_vars

\* C6: after onReceive of a packet with hop_start and hop_limit non-zero,
\* node_hop_count{num=from} = hop_start - hop_limit; a packet lacking either
\* leaves node_hop_count as it was.
C6_HopCountExact ==
    [][Called =>
        LET p == packet'[1]
        IN  IF p.hop_start /= 0 /\ p.hop_limit /= 0
            THEN /\ p.from \in DOMAIN NODE_HOP_COUNT'
                 /\ NODE_HOP_COUNT'[p.from] = p.hop_start - p.hop_limit
            ELSE NODE_HOP_COUNT' = NODE_HOP_COUNT]_vars

\* C19: after onReceive of a packet with non-zero hop_start,
\* node_hop_limit{num=from} = hop_start, whatever hop_limit is; a packet
\* whose hop_start is zero or absent writes none of node_hop_limit,
\* node_hop_count, node_snr and node_rssi.
C19_HopLimitFromHopStart ==
    [][Called =>
        LET p == packet'[1]
        IN  IF p.hop_start /= 0
            THEN /\ p.from \in DOMAIN NODE_HOP_LIMIT'
                 /\ NODE_HOP_LIMIT'[p.from] = p.hop_start
            ELSE /\ NODE_HOP_LIMIT' = NODE_HOP_LIMIT
                 /\ NODE_HOP_COUNT' = NODE_HOP_COUNT
                 /\ NODE_SNR' = NODE_SNR
                 /\ NODE_RSSI' = NODE_RSSI]_vars

(***************************************************************************)
(* Node registry: every snapshot of up to two entries, with and without    *)
(* identity and lastHeard; NODEINFO packets with every identity and both   *)
(* receive-time keys, and text packets with and without decoded rx_time.   *)
(***************************************************************************)
Alice == CHOOSE u \in Users : u.longName = "Alice"

\* entries of interface.nodesByNum
SeedEntries == [user : {None, Some(Alice)}, lastHeard : {None, Some(1)}]

RegistryPackets ==
    { Pkt(from, BROADCAST_NUM, "NODEINFO_APP", drx, rx, MaxHop, MaxHop, 0, 0,
          None, None, user) :
        from \in Nodes, drx \in {None, Some(MaxTime)}, rx \in Opt(Times),
        user \in Opt(Users) }
    \cup
    { Pkt(from, BROADCAST_NUM, "TEXT_MESSAGE_APP", drx, None, MaxHop, MaxHop, 0, 0,
          None, None, None) :
        from \in Nodes, drx \in {None, Some(MaxTime)} }

InitRegistry == InitWith(Snapshots(SeedEntries))

NextRegistry == SeedEntry \/ SeedDone \/ Receive(RegistryPackets)

SpecRegistry == InitRegistry /\ [][NextRegistry]_vars

\* the label set of node_info for a node and an identity
Labels(num, user) ==
    <<num, user.longName,
      IF user.isLicensed = None THEN "False"
      ELSE IF user.isLicensed[1] THEN "True" ELSE "False">>

\* the for loop of server_loop has loaded node n, with identity
Seeded(n) ==
    \E i \in 1..seeded :
        cached_node_info[i][1] = n /\ cached_node_info[i][2].user /= None

SeededUser(n) ==
    LET i == CHOOSE j \in 1..seeded : cached_node_info[j][1] = n
    IN  cached_node_info[i][2].user[1]

\* the series of node n
SeriesOf(info, n) == {k \in DOMAIN info : k[1] = n}

\* seeding an entry with identity and lastHeard = T publishes node_info = T
SeedPublishes ==
    seeded' = seeded + 1 =>
        LET id == cached_node_info[seeded'][1]
            entry == cached_node_info[seeded'][2]
        IN  (entry.user /= None /\ entry.lastHeard /= None) =>
               /\ Labels(id, entry.user[1]) \in DOMAIN NODE_INFO'
               /\ NODE_INFO'[Labels(id, entry.user[1])] = entry.lastHeard[1]

\* the packet p of this step republishes the seeded identity of its node
\* with its decoded rx_time and creates no other series for the node
TouchRepublishes(p) ==
    /\ Labels(p.from, SeededUser(p.from)) \in DOMAIN NODE_INFO'
    /\ NODE_INFO'[Labels(p.from, SeededUser(p.from))] = p.decoded_rx_time[1]
    /\ SeriesOf(NODE_INFO', p.from) = SeriesOf(NODE_INFO, p.from)

Timestamp(p) == IF p.rx_time /= None THEN p.rx_time[1] ELSE now'[1]

\* this step is onReceive of a NODEINFO packet whose identity has another
\* long name than the one the registry holds for its node
Renaming ==
    /\ Called
    /\ packet'[1].portnum = "NODEINFO_APP"
    /\ packet'[1].user /= None
    /\ packet'[1].from \in DOMAIN nodes
    /\ nodes[packet'[1].from].user /= None
    /\ nodes[packet'[1].from].user[1].longName /= packet'[1].user[1].longName

C9_SeedSkipsUnidentified ==
    /\ pc /= "exited"
    /\ pc = "serving" =>
          \A i \in 1..Len(cached_node_info) :
              LET id == cached_node_info[i][1]
                  entry == cached_node_info[i][2]
              IN  /\ id \in DOMAIN nodes
                  /\ entry.user /= None => Labels(id, entry.user[1]) \in DOMAIN NODE_INFO

\* the time of the observation the packet p of this step applies to its
\* node: the timestamp of its NODEINFO payload, else its decoded rx_time
Observed(p) ==
    IF p.portnum = "NODEINFO_APP" /\ p.user /= None THEN Timestamp(p)
    ELSE p.decoded_rx_time[1]

\* C14: after onReceive of a packet with a decoded rx_time T2, or of a
\* NODEINFO packet observed at T2, from a registered node with identity,
\* nodes[from]['lastHeard'] is T2.
C14_LastHeardFollows ==
    [][(/\ Called
        /\ packet'[1].from \in DOMAIN nodes
        /\ nodes[packet'[1].from].user /= None
        /\ \/ packet'[1].decoded_rx_time /= None
           \/ packet'[1].portnum = "NODEINFO_APP" /\ packet'[1].user /= None) =>
          nodes'[packet'[1].from].lastHeard = Some(Observed(packet'[1]))]_vars

\* C15: once the seeding loop is over, no key of nodes disappears and no
\* entry is replaced; a key is added only by onReceive of a NODEINFO packet
\* from a node that is not a key yet, and then only that key is added.
C15_FirstIdentityWins ==
    [][pc = "serving" =>
          /\ \A n \in DOMAIN nodes : n \in DOMAIN nodes' /\ nodes'[n] = nodes[n]
          /\ DOMAIN nodes' /= DOMAIN nodes =>
                /\ Called
                /\ packet'[1].portnum = "NODEINFO_APP"
                /\ packet'[1].from \notin DOMAIN nodes
                /\ DOMAIN nodes' = DOMAIN nodes \cup {packet'[1].from}]_vars

\* seeding is over; a node seeded as Alice has sent a NODEINFO packet as
\* Alicia and is still registered as Alice, and another node has been
\* registered by its NODEINFO packet
C15_Witness ==
    /\ pc = "serving"
    /\ packet /= None
    /\ raised = ""
    /\ packet[1].portnum = "NODEINFO_APP"
    /\ packet[1].user /= None /\ packet[1].user[1].longName = "Alicia"
    /\ Seeded(packet[1].from)
    /\ nodes[packet[1].from].user = Some(Alice)
    /\ \E n \in DOMAIN nodes : ~ Seeded(n) /\ nodes[n].user /= None
    /\ Total(delivered) = 2

\* C16: onReceive is not called before the seeding loop is over, and an
\* iteration of the seeding loop never replaces an entry of nodes that a
\* NODEINFO packet has created.
C16_SeedBeforePackets ==
    [][/\ Called => pc = "serving"
       /\ seeded' = seeded + 1 =>
             \A n \in DOMAIN nodes : nodes'[n] = nodes[n]]_vars

(***************************************************************************)
(* Payload projectors: telemetry with every combination of the device,     *)
(* environment and air-quality groups, positions with every combination    *)
(* of fields, from the registered node and from an unknown one, with and   *)
(* without decoded rx_time.                                                *)
(***************************************************************************)
DeviceGroups == { [batteryLevel |-> 80], [batteryLevel |-> 75, voltage |-> 4] }
EnvironmentGroups == { [temperature |-> 21] }
AirQualityGroups == { [pm10Standard |-> 3] }

\* packet['decoded']['telemetry'] with the groups that are present
Telemetry(d, e, a) ==
    [g \in {n \in {"deviceMetrics", "environmentMetrics", "airQualityMetrics"} :
                \/ n = "deviceMetrics" /\ d /= None
                \/ n = "environmentMetrics" /\ e /= None
                \/ n = "airQualityMetrics" /\ a /= None} |->
        IF g = "deviceMetrics" THEN d[1]
        ELSE IF g = "environmentMetrics" THEN e[1] ELSE a[1]]

Telemetries ==
    { Telemetry(d, e, a) :
        d \in Opt(DeviceGroups), e \in Opt(EnvironmentGroups), a \in Opt(AirQualityGroups) }

\* packet['decoded']['position'] with the fields that are present
Positions ==
    { [f \in F |-> IF f = "latitude" THEN 52 ELSE IF f = "longitude" THEN 21 ELSE 110] :
        F \in SUBSET {"latitude", "longitude", "altitude"} }

PayloadPackets ==
    { Pkt(from, BROADCAST_NUM, "TELEMETRY_APP", drx, None, MaxHop, MaxHop, 0, 0,
          tel, None, None) :
        from \in Nodes, drx \in {None, Some(MaxTime)}, tel \in Opt(Telemetries) }
    \cup
    { Pkt(from, BROADCAST_NUM, "POSITION_APP", drx, None, MaxHop, MaxHop, 0, 0,
          None, pos, None) :
        from \in Nodes, drx \in {None, Some(MaxTime)}, pos \in Opt(Positions) }

InitPayload == InitWith(KnownOne)

NextPayload == SeedEntry \/ SeedDone \/ Receive(PayloadPackets)

SpecPayload == InitPayload /\ [][NextPayload]_vars

\* the device_metric series a telemetry record names: (labels, value) pairs
Named(num, telemetry) ==
    { <<<<num, key, "device">>, telemetry["deviceMetrics"][key]>> :
        key \in (IF "deviceMetrics" \in DOMAIN telemetry
                 THEN DOMAIN telemetry["deviceMetrics"] ELSE {}) }
    \cup
    { <<<<num, key, "environment">>, telemetry["environmentMetrics"][key]>> :
        key \in (IF "environmentMetrics" \in DOMAIN telemetry
                 THEN DOMAIN telemetry["environmentMetrics"] ELSE {}) }

\* C10: after onReceive of a TELEMETRY packet from node n, device_metric
\* {num=n, metric=k, type="device"} = v for every pair of the device group
\* and {type="environment"} for every pair of the environment group, and no
\* other device_metric series is written.
C10_TelemetryProjected ==
    [][(Called /\ packet'[1].portnum = "TELEMETRY_APP" /\ packet'[1].telemetry /= None) =>
        LET named == Named(packet'[1].from, packet'[1].telemetry[1])
        IN  /\ \A s \in named :
                   s[1] \in DOMAIN DEVICE_METRICS' /\ DEVICE_METRICS'[s[1]] = s[2]
            /\ \A k \in DOMAIN DEVICE_METRICS' \ {s[1] : s \in named} :
                   k \in DOMAIN DEVICE_METRICS /\ DEVICE_METRICS'[k] = DEVICE_METRICS[k]]_vars

\* the gauge g2 is g with the series of node n set to pos[f] if the position
\* record pos has the field f, and is g if it has not
Projected(g2, g, n, pos, f) ==
    IF f \in DOMAIN pos
    THEN /\ DOMAIN g2 = DOMAIN g \cup {n}
         /\ g2[n] = pos[f]
         /\ \A x \in DOMAIN g \ {n} : g2[x] = g[x]
    ELSE g2 = g

\* C18: after onReceive of a POSITION packet from node n, each of
\* node_latitude, node_longitude and node_altitude has the value of its
\* field for num=n if the payload has the field and is as it was for n if
\* not; the three gauges of every other node are as they were.
C18_PositionProjected ==
    [][(Called /\ packet'[1].portnum = "POSITION_APP" /\ packet'[1].position /= None) =>
        LET p == packet'[1]
        IN  /\ Projected(NODE_LATITUDE', NODE_LATITUDE, p.from, p.position[1], "latitude")
            /\ Projected(NODE_LONGITUDE', NODE_LONGITUDE, p.from, p.position[1], "longitude")
            /\ Projected(NODE_ALTITUDE', NODE_ALTITUDE, p.from, p.position[1], "altitude")]_vars

\* every series of m exists in m2
Kept(m2, m) == DOMAIN m \subseteq DOMAIN m2

\* C20: in every step, seeding or onReceive, every series of every counter
\* and gauge that exists still exists afterwards, and no series of
\* incoming_messages and message_count has a smaller value than before.
C20_SeriesOnlyGrow ==
    [][/\ Kept(INCOMING_MESSAGES', INCOMING_MESSAGES)
       /\ Kept(NODE_INFO', NODE_INFO)
       /\ Kept(NODE_LATITUDE', NODE_LATITUDE)
       /\ Kept(NODE_LONGITUDE', NODE_LONGITUDE)
       /\ Kept(NODE_ALTITUDE', NODE_ALTITUDE)
       /\ Kept(NODE_SNR', NODE_SNR)
       /\ Kept(NODE_RSSI', NODE_RSSI)
       /\ Kept(NODE_HOP_LIMIT', NODE_HOP_LIMIT)
       /\ Kept(NODE_HOP_COUNT', NODE_HOP_COUNT)
       /\ Kept(DEVICE_METRICS', DEVICE_METRICS)
       /\ Kept(MESSAGES', MESSAGES)
       /\ \A k \in DOMAIN INCOMING_MESSAGES : INCOMING_MESSAGES'[k] >= INCOMING_MESSAGES[k]
       /\ \A k \in DOMAIN MESSAGES : MESSAGES'[k] >= MESSAGES[k]]_vars

\* node 1 has sent telemetry with battery level and voltage and then
\* telemetry with the battery level only: the voltage series is still there
C20_Witness ==
    /\ packet /= None
    /\ raised = ""
    /\ packet[1].from = 1
    /\ packet[1].telemetry /= None
    /\ "deviceMetrics" \in DOMAIN packet[1].telemetry[1]
    /\ DOMAIN packet[1].telemetry[1]["deviceMetrics"] = {"batteryLevel"}
    /\ <<1, "voltage", "device">> \in DOMAIN DEVICE_METRICS
    /\ DEVICE_METRICS[<<1, "batteryLevel", "device">>] = 80
    /\ Value(INCOMING_MESSAGES, "TELEMETRY_APP") = 2
    /\ Value(MESSAGES, <<1, "all", "TELEMETRY_APP">>) = 2

(***************************************************************************)
(* Missing payloads: every port type without the record it announces, and  *)
(* one position and one telemetry packet that do carry it, from the        *)
(* registered node and from an unknown one, with and without decoded       *)
(* rx_time.                                                                *)
(***************************************************************************)
MissingPackets ==
    { Pkt(from, BROADCAST_NUM, portnum, drx, Some(MaxTime), MaxHop, MaxHop, 0, 0,
          None, None, None) :
        from \in Nodes, drx \in {None, Some(MaxTime)},
        portnum \in {"TELEMETRY_APP", "POSITION_APP", "NODEINFO_APP"} }
    \cup
    { Pkt(from, BROADCAST_NUM, "POSITION_APP", None, Some(MaxTime), MaxHop, MaxHop, 0, 0,
          None, Some([latitude |-> 52]), None) : from \in Nodes }
    \cup
    { Pkt(from, BROADCAST_NUM, "TELEMETRY_APP", None, Some(MaxTime), MaxHop, MaxHop, 0, 0,
          Some([deviceMetrics |-> [batteryLevel |-> 80]]), None, None) : from \in Nodes }

InitMissing == InitWith(KnownOne)

NextMissing == SeedEntry \/ SeedDone \/ Receive(MissingPackets)

SpecMissing == InitMissing /\ [][NextMissing]_vars

\* the payload the port type announces is missing
LacksPayload(p) ==
    \/ p.portnum = "TELEMETRY_APP" /\ p.telemetry = None
    \/ p.portnum = "POSITION_APP" /\ p.position = None
    \/ p.portnum = "NODEINFO_APP" /\ p.user = None

\* C12: onReceive of a TELEMETRY packet without telemetry record, of a
\* POSITION packet without position record and of a NODEINFO packet without
\* identity returns without error, writes no position and no device_metric
\* series and adds no entry to nodes.  Stated for the packets that get past
\* the lookup of line 39 (registered source node, or no decoded rx_time).
C12_MissingPayloadTolerated ==
    [][(/\ Called
        /\ LacksPayload(packet'[1])
        /\ (packet'[1].decoded_rx_time = None \/ packet'[1].from \in DOMAIN nodes)) =>
          /\ raised' = ""
          /\ payload_metrics' = payload_metrics
          /\ nodes' = nodes]_vars

(***************************************************************************)
(* The commands tcp, ble and serial around server_loop: the interface      *)
(* constructor (or start_http_server) raises or server_loop is entered     *)
(* with the snapshot of the interface; every snapshot of up to two entries *)
(* with and without identity, up to MaxDevices discovered devices, and a   *)
(* few packets, of which two end onReceive in an exception.                *)
(***************************************************************************)
\* interface.nodesByNum of the interface a command has constructed
CommandSnapshots == Snapshots([user : {None, Some(Alice)}, lastHeard : {Some(1)}])

\* lines 106-109: subscribe, start the HTTP server, read interface.nodesByNum
server_loop ==
    /\ subscribed' = TRUE
    /\ cached_node_info' \in CommandSnapshots
    /\ seeded' = 0
    /\ pc' = "seeding"
    /\ UNCHANGED exit_status

\* the except clauses of lines 134-136, 155-157 and 163-165: the interface
\* constructor or start_http_server has raised
ConnectFails ==
    /\ sys_exit
    /\ UNCHANGED << subscribed, cached_node_info, seeded >>

tcp ==
    /\ pc = "connecting"
    /\ command = "tcp"
    /\ (server_loop \/ ConnectFails)
    /\ UNCHANGED << command, address, potential_devices, device >>
    /\ UNCHANGED << nodes, metrics, packet, now, raised, delivered >>

serial ==
    /\ pc = "connecting"
    /\ command = "serial"
    /\ (server_loop \/ ConnectFails)
    /\ UNCHANGED << command, address, potential_devices, device >>
    /\ UNCHANGED << nodes, metrics, packet, now, raised, delivered >>

\* lines 153-157: ble with an address
ble ==
    /\ pc = "connecting"
    /\ command = "ble"
    /\ ~ AnyDevice
    /\ (server_loop \/ ConnectFails)
    /\ UNCHANGED << command, address, potential_devices, device >>
    /\ UNCHANGED << nodes, metrics, packet, now, raised, delivered >>

\* lines 145-150: the next discovered device is tried; if its constructor
\* or start_http_server raises, the loop continues
bleTryDevice ==
    /\ pc = "connecting"
    /\ AnyDevice
    /\ device < Len(potential_devices)
    /\ device' = device + 1
    /\ \/ server_loop
       \/ UNCHANGED << subscribed, cached_node_info, seeded, pc, exit_status >>
    /\ UNCHANGED << command, address, potential_devices >>
    /\ UNCHANGED << nodes, metrics, packet, now, raised, delivered >>

\* lines 151-152: the for loop is exhausted
bleNoDevice ==
    /\ pc = "connecting"
    /\ AnyDevice
    /\ device = Len(potential_devices)
    /\ sys_exit
    /\ UNCHANGED << subscribed, cached_node_info, seeded >>
    /\ UNCHANGED << command, address, potential_devices, device >>
    /\ UNCHANGED << nodes, metrics, packet, now, raised, delivered >>

CommandPackets ==
    { Pkt(from, BROADCAST_NUM, portnum, drx, Some(MaxTime), MaxHop, MaxHop, 0, 0,
          None, None, None) :
        from \in {1}, drx \in {None, Some(MaxTime)},
        portnum \in {"TEXT_MESSAGE_APP", "TELEMETRY_APP"} }

InitCommands ==
    /\ Imported
    /\ cached_node_info = <<>>
    /\ seeded = 0
    /\ pc = "connecting"
    /\ command \in {"tcp", "ble", "serial"}
    /\ address \in (IF command = "ble" THEN {Some("any"), Some("AA:BB")} ELSE {None})
    /\ potential_devices \in
          (IF AnyDevice THEN {[i \in 1..n |-> i] : n \in 0..MaxDevices} ELSE {<<>>})
    /\ device = 0
    /\ subscribed = FALSE
    /\ exit_status = None

NextCommands ==
    \/ tcp \/ serial \/ ble \/ bleTryDevice \/ bleNoDevice
    \/ SeedEntry \/ SeedDone \/ Receive(CommandPackets)

SpecCommands == InitCommands /\ [][NextCommands]_vars

\* C13: a connection failure of tcp, serial and ble with an address exits
\* with status 1; ble with address "any" tries the discovered devices in
\* order and exits with status 1 when the last one has not connected; and
\* the process exits only from there: never out of the seeding loop or the
\* sleep loop, whatever the snapshot and the packets contain.
C13_OnlyConnectionFailureExits ==
    [][/\ (pc = "connecting" /\ ~ AnyDevice) =>
             \/ pc' = "exited" /\ exit_status' = Some(1)
             \/ pc' = "seeding"
       /\ (pc = "connecting" /\ AnyDevice) =>
             \/ pc' = "exited" /\ exit_status' = Some(1)
                   /\ device = Len(potential_devices)
             \/ pc' \in {"connecting", "seeding"} /\ device' = device + 1
             \/ Called
       /\ pc \in {"seeding", "serving"} =>
             (pc' /= "exited" /\ exit_status' = None /\ device' = device)]_vars

====
